---- MODULE Spec2Model ----
(***************************************************************************)
(* Model of src/helper.py: the extractors that derive collaboration facts  *)
(* for one user from chat channels, a commit log and meeting transcripts.  *)
(*                                                                         *)
(* A Python dict is a TLA+ function whose DOMAIN is the set of keys that   *)
(* are present, so d.get(k, default) and d[k] (which raises KeyError when  *)
(* k is absent) are different operations.  A Python list is a sequence;    *)
(* Python index i is position i + 1 here.  A str is a sequence of          *)
(* one-character strings.  A call either returns a list or raises, which   *)
(* is the record [status, value].                                          *)
(***************************************************************************)
EXTENDS Integers, Sequences, FiniteSets, TLC

VARIABLES slack_data, github_data, transcripts_data, user_id, context_window,
          pc, result

vars == <<slack_data, github_data, transcripts_data, user_id, context_window,
          pc, result>>

(***************************************************************************)
(* Python primitives                                                       *)
(***************************************************************************)
None == "None"

\* d.get(k): the value under k, or None when the key is absent
Get(d, k) == IF k \in DOMAIN d THEN d[k] ELSE None

\* d.get(k, default)
GetOr(d, k, default) == IF k \in DOMAIN d THEN d[k] ELSE default

\* d[k] is defined exactly when k is a key of d; otherwise KeyError
Has(d, k) == k \in DOMAIN d

Ok(v) == [status |-> "ok", value |-> v]
KeyError == [status |-> "KeyError", value |-> <<>>]
NotCalled == [status |-> "none", value |-> <<>>]

Min(a, b) == IF a < b THEN a ELSE b
Max(a, b) == IF a > b THEN a ELSE b

\* seq[lo:hi] with 0 <= lo, in Python's 0-based half-open convention
Slice(seq, lo, hi) == SubSeq(seq, lo + 1, Min(hi, Len(seq)))

(***************************************************************************)
(* Bounds of the explored inputs                                           *)
(***************************************************************************)
\* longest channel of a one-channel workspace
MaxMsgs == 5
\* most channels in one workspace, and the most messages over all of them
\* when there are several
MaxChannels == 2
MaxShort == 4
\* longest channel or transcript explored with records that lack a field
MaxMalformed == 2
\* most meetings in one input, and the most lines over all of them
MaxMeetings == 2
MaxLines == 5
\* largest context radius passed to the transcript extractor
MaxRadius == 2
\* most commits in the commit log
MaxCommits == 2
\* longest channel and largest forward window passed to the kudos extractor
MaxKudosMsgs == 4
MaxWindow == 3
\* most code messages of the target in the channel matched against commits
MaxSnippets == 2

Users == {"A", "B"}

(***************************************************************************)
(* Input records                                                           *)
(***************************************************************************)
EmptyDict == [k \in {} |-> k]

Digit == <<"0", "1", "2", "3", "4", "5", "6", "7", "8", "9">>

\* the text of the message at 0-based index i of channel c: texts are opaque
\* to the channel scans, and a distinct one per position lets a fact identify
\* the messages it was built from
TextAt(c, i) == <<"m", Digit[c + 1], Digit[i + 1]>>

ChannelId(c) == <<"c", Digit[c + 1]>>

\* a message dict; u = None leaves out "user", t = None leaves out "text",
\* cc = None leaves out "contains_code"
Message(u, t, cc) ==
    (IF u = None THEN EmptyDict ELSE ("user" :> u))
    @@ (IF t = None THEN EmptyDict ELSE ("text" :> t))
    @@ (IF cc = None THEN EmptyDict ELSE ("contains_code" :> (cc = "true")))

Flags == {"true", "false", None}

\* the shape of a message: who wrote it, whether it has a text, its flag
WellFormedShapes == [user : Users, text : {TRUE}, cc : Flags]
FlaggedOrBareShapes == [user : Users, text : {TRUE}, cc : {"true", None}]
AnyShapes == [user : Users \cup {None}, text : BOOLEAN, cc : Flags]

\* the ways to cut a sequence of length len into n consecutive pieces
Cuts(n, len) ==
    {f \in [1..(n - 1) -> 0..len] : \A i \in 1..(n - 1) : \A j \in i..(n - 1) : f[i] <= f[j]}

CutInto(flat, n, cuts) ==
    [c \in 1..n |->
        SubSeq(flat, (IF c = 1 THEN 0 ELSE cuts[c - 1]) + 1,
                     IF c = n THEN Len(flat) ELSE cuts[c])]

Channel(c, shapeSeq) ==
    [channel_id |-> ChannelId(c),
     messages |-> [i \in 1..Len(shapeSeq) |->
                     Message(shapeSeq[i].user,
                             IF shapeSeq[i].text THEN TextAt(c, i - 1) ELSE None,
                             shapeSeq[i].cc)]]

Workspace(shapeSeqs) ==
    [channels |-> [c \in 1..Len(shapeSeqs) |-> Channel(c - 1, shapeSeqs[c])]]

\* slack_data is no channel at all, or one well-formed channel
LongWorkspace ==
    \/ slack_data = Workspace(<<>>)
    \/ \E n \in 0..MaxMsgs : \E s \in [1..n -> WellFormedShapes] :
          slack_data = Workspace(<<s>>)

\* slack_data is several well-formed channels
MultiWorkspace ==
    \E n \in 2..MaxChannels : \E len \in 0..MaxShort :
        \E flat \in [1..len -> FlaggedOrBareShapes] : \E cuts \in Cuts(n, len) :
            slack_data = Workspace(CutInto(flat, n, cuts))

\* slack_data is one channel whose records may lack their user, their text
\* or both
MalformedWorkspace ==
    \E n \in 0..MaxMalformed : \E s \in [1..n -> AnyShapes] :
        slack_data = Workspace(<<s>>)

NoCommits == [commits |-> <<>>]

(***************************************************************************)
(* get_user_received_code                                                  *)
(***************************************************************************)
\* a window one message too long
AckWindowWide == 3 + 1

\* the forward window of the acknowledgment scan: messages[i + 1:i + 4]
AckWindow == 3

\* the dict appended at a hit; each subscript raises KeyError on an absent key
ReceivedFact(channel, msg, follow_up) ==
    IF Has(channel, "channel_id") /\ Has(msg, "user") /\ Has(msg, "text")
       /\ Has(follow_up, "text")
    THEN Ok(<<[channel |-> channel["channel_id"],
               from_user |-> msg["user"],
               code_snippet |-> msg["text"],
               acknowledged_by_user |-> follow_up["text"]]>>)
    ELSE KeyError

\* the scan of the window without its break: every message by the user is
\* appended for the same trigger
RECURSIVE FollowUpLoopNoBreak(_, _, _, _, _)
FollowUpLoopNoBreak(channel, msg, window, k, uid) ==
    IF k > Len(window) THEN Ok(<<>>)
    ELSE LET here == IF Get(window[k], "user") = uid
                     THEN ReceivedFact(channel, msg, window[k])
                     ELSE Ok(<<>>)
             rest == FollowUpLoopNoBreak(channel, msg, window, k + 1, uid)
         IN  IF here.status = "KeyError" \/ rest.status = "KeyError" THEN KeyError
             ELSE Ok(here.value \o rest.value)

\* for follow_up in window: the first one by the user is appended, then break
RECURSIVE FollowUpLoop(_, _, _, _, _)
FollowUpLoop(channel, msg, window, k, uid) ==
    IF k > Len(window) THEN Ok(<<>>)
    ELSE IF Get(window[k], "user") = uid
         THEN ReceivedFact(channel, msg, window[k])
         ELSE FollowUpLoop(channel, msg, window, k + 1, uid)

\* for i, msg in enumerate(messages), from 0-based index i on
RECURSIVE ReceivedMessageLoop(_, _, _, _, _)
ReceivedMessageLoop(channel, messages, i, uid, acc) ==
    IF i >= Len(messages) THEN Ok(acc)
    ELSE LET msg == messages[i + 1]
             step == IF GetOr(msg, "contains_code", FALSE) /\ Get(msg, "user") # uid
                     THEN FollowUpLoop(channel, msg,
                                       Slice(messages, i + 1, i + 1 + AckWindow), 1, uid)
                     ELSE Ok(<<>>)
         IN  IF step.status = "KeyError" THEN KeyError
             ELSE ReceivedMessageLoop(channel, messages, i + 1, uid, acc \o step.value)

\* for channel in slack_data.get("channels", []), from position c on
RECURSIVE ReceivedChannelLoop(_, _, _, _)
ReceivedChannelLoop(channels, c, uid, acc) ==
    IF c > Len(channels) THEN Ok(acc)
    ELSE LET r == ReceivedMessageLoop(channels[c], GetOr(channels[c], "messages", <<>>),
                                      0, uid, acc)
         IN  IF r.status = "KeyError" THEN KeyError
             ELSE ReceivedChannelLoop(channels, c + 1, uid, r.value)

get_user_received_code(slack, uid) ==
    ReceivedChannelLoop(GetOr(slack, "channels", <<>>), 1, uid, <<>>)

(***************************************************************************)
(* get_user_meeting_transcripts_with_context                               *)
(***************************************************************************)
LineText(m, i) == <<"l", Digit[m + 1], Digit[i + 1]>>

MeetingId(m) == <<"M", Digit[m + 1]>>

Line(u, t) ==
    (IF u = None THEN EmptyDict ELSE ("user" :> u))
    @@ (IF t = None THEN EmptyDict ELSE ("text" :> t))

SpokenShapes == [user : Users \cup {None}, text : {TRUE}]
AnyLineShapes == [user : Users \cup {None}, text : BOOLEAN]

Meeting(m, shapeSeq) ==
    [meeting_id |-> MeetingId(m),
     transcript |-> [i \in 1..Len(shapeSeq) |->
                       Line(shapeSeq[i].user,
                            IF shapeSeq[i].text THEN LineText(m, i - 1) ELSE None)]]

Meetings(shapeSeqs) == [m \in 1..Len(shapeSeqs) |-> Meeting(m - 1, shapeSeqs[m])]

\* a window that stops one line early
WindowEndShort(n, idx, cw) == Min(n, idx + cw)

\* start = max(0, idx - context_window); end = min(len(transcript), idx + context_window + 1)
WindowStart(idx, cw) == Max(0, idx - cw)
WindowEnd(n, idx, cw) == Min(n, idx + cw + 1)

\* for idx, line in enumerate(transcript): the 0-based indices collected
\* from index idx on
RECURSIVE IncludedIndices(_, _, _, _, _)
IncludedIndices(transcript, idx, uid, cw, included) ==
    IF idx >= Len(transcript) THEN included
    ELSE IncludedIndices(transcript, idx + 1, uid, cw,
            IF Get(transcript[idx + 1], "user") = uid
            THEN included \cup
                 {i \in 0..(Len(transcript) - 1) :
                    WindowStart(idx, cw) <= i /\ i < WindowEnd(Len(transcript), idx, cw)}
            ELSE included)

\* sorted(included_indices)
RECURSIVE Sorted(_)
Sorted(S) ==
    IF S = {} THEN <<>>
    ELSE LET least == CHOOSE x \in S : \A y \in S : x <= y
         IN  <<least>> \o Sorted(S \ {least})

\* the flow built from the sorted indices, from position k on
RECURSIVE FlowLoop(_, _, _, _)
FlowLoop(transcript, order, k, flow) ==
    IF k > Len(order) THEN Ok(flow)
    ELSE LET line == transcript[order[k] + 1]
         IN  IF Has(line, "user") /\ Has(line, "text")
             THEN FlowLoop(transcript, order, k + 1,
                           Append(flow, [user |-> line["user"], text |-> line["text"]]))
             ELSE KeyError

\* a flow is appended whatever the index set
EmitsAlways(included) == TRUE

\* if included_indices:
Emits(included) == included # {}

\* for meeting in transcripts_data, from position m on
RECURSIVE MeetingLoop(_, _, _, _, _)
MeetingLoop(transcripts, m, uid, cw, results) ==
    IF m > Len(transcripts) THEN Ok(results)
    ELSE LET meeting == transcripts[m]
             transcript == GetOr(meeting, "transcript", <<>>)
             included == IncludedIndices(transcript, 0, uid, cw, {})
             flow == FlowLoop(transcript, Sorted(included), 1, <<>>)
         IN  IF ~Emits(included)
             THEN MeetingLoop(transcripts, m + 1, uid, cw, results)
             ELSE IF flow.status = "KeyError" THEN KeyError
             ELSE MeetingLoop(transcripts, m + 1, uid, cw,
                      Append(results, [meeting_id |-> Get(meeting, "meeting_id"),
                                       flow |-> flow.value]))

get_user_meeting_transcripts_with_context(transcripts, uid, cw) ==
    MeetingLoop(transcripts, 1, uid, cw, <<>>)

(***************************************************************************)
(* Commits                                                                 *)
(***************************************************************************)
Github == <<"g", "i", "t", "h", "u", "b">>

\* "ab" fifteen times: a text of exactly 30 characters
AB15 == [i \in 1..30 |-> IF i % 2 = 1 THEN "a" ELSE "b"]

\* the diff bodies and commit messages explored: neither key present, a
\* short diff with a short message, a 30-character diff with a short message
CommitBodies ==
    <<EmptyDict,
      [codediff |-> <<"a">>, commit_message |-> <<"b">>],
      [codediff |-> AB15, commit_message |-> <<"c">>]>>

CommitShapes == [author : Users \cup {None}, body : DOMAIN CommitBodies, sha : BOOLEAN]
CompleteCommitShapes == [author : Users \cup {None}, body : DOMAIN CommitBodies, sha : {TRUE}]

\* the commit dict at 0-based position k of the log
Commit(k, shape) ==
    (IF shape.author = None THEN EmptyDict ELSE ("author" :> shape.author))
    @@ (IF shape.sha THEN ("sha" :> <<"s", Digit[k + 1]>>) ELSE EmptyDict)
    @@ CommitBodies[shape.body]
    @@ [date |-> <<"d", Digit[k + 1]>>,
        files_changed |-> <<<<"f", Digit[k + 1]>>>>,
        lines_added |-> k + 1,
        lines_deleted |-> k,
        area |-> <<"x", Digit[k + 1]>>]

CommitLog(shapeSeq) ==
    [commits |-> [k \in 1..Len(shapeSeq) |-> Commit(k - 1, shapeSeq[k])]]

\* the keys the personal-commit record is built from
CommitKeys ==
    {"sha", "date", "commit_message", "files_changed", "lines_added",
     "lines_deleted", "area", "codediff"}

\* the record with the two line counts exchanged
PersonalCommitSwapped(commit) ==
    [sha |-> commit["sha"],
     date |-> commit["date"],
     message |-> commit["commit_message"],
     files_changed |-> commit["files_changed"],
     lines_added |-> commit["lines_deleted"],
     lines_deleted |-> commit["lines_added"],
     area |-> commit["area"],
     codediff |-> commit["codediff"]]

\* the dict the comprehension builds for one commit
PersonalCommit(commit) ==
    [sha |-> commit["sha"],
     date |-> commit["date"],
     message |-> commit["commit_message"],
     files_changed |-> commit["files_changed"],
     lines_added |-> commit["lines_added"],
     lines_deleted |-> commit["lines_deleted"],
     area |-> commit["area"],
     codediff |-> commit["codediff"]]

\* for commit in github_data.get("commits", []) if commit.get("author") == user_id
RECURSIVE PersonalCommitLoop(_, _, _, _)
PersonalCommitLoop(commits, k, uid, acc) ==
    IF k > Len(commits) THEN Ok(acc)
    ELSE IF Get(commits[k], "author") # uid
         THEN PersonalCommitLoop(commits, k + 1, uid, acc)
         ELSE IF CommitKeys \subseteq DOMAIN commits[k]
              THEN PersonalCommitLoop(commits, k + 1, uid,
                                      Append(acc, PersonalCommit(commits[k])))
              ELSE KeyError

get_user_github_commits(github, uid) ==
    PersonalCommitLoop(GetOr(github, "commits", <<>>), 1, uid, <<>>)

(***************************************************************************)
(* extract_peer_kudos                                                      *)
(***************************************************************************)
\* def extract_peer_kudos(..., context_window=3)
DefaultWindow == 3

\* a prefix of one character
PrefixLenShort == 30 - 29

\* code_snippet[:30]
PrefixLen == 30

\* needle in hay, for strings
Contains(needle, hay) ==
    \E k \in 0..(Len(hay) - Len(needle)) : SubSeq(hay, k + 1, k + Len(needle)) = needle

\* the diff body and the message put end to end
CommitTextJoined(commit) ==
    GetOr(commit, "codediff", <<>>) \o GetOr(commit, "commit_message", <<>>)

\* commit.get("codediff", "") + " " + commit.get("commit_message", "")
CommitText(commit) ==
    GetOr(commit, "codediff", <<>>) \o <<" ">> \o GetOr(commit, "commit_message", <<>>)

\* the acknowledgment pass stopping at its first hit
RECURSIVE KudosFollowUpLoopFirstOnly(_, _, _, _, _, _)
KudosFollowUpLoopFirstOnly(channel, code_snippet, window, k, uid, acc) ==
    IF k > Len(window) THEN Ok(acc)
    ELSE IF ~Has(window[k], "user") THEN KeyError
    ELSE IF window[k]["user"] # uid
         THEN IF Has(channel, "channel_id") /\ Has(window[k], "text")
              THEN Ok(Append(acc, [from_user |-> uid,
                                   to_user |-> window[k]["user"],
                                   channel |-> channel["channel_id"],
                                   code_snippet |-> code_snippet,
                                   ack_text |-> window[k]["text"],
                                   type |-> "slack_ack"]))
              ELSE KeyError
         ELSE KudosFollowUpLoopFirstOnly(channel, code_snippet, window, k + 1, uid, acc)

\* for follow_up in messages[idx + 1 : idx + 1 + context_window], from
\* position k of the window on
RECURSIVE KudosFollowUpLoop(_, _, _, _, _, _)
KudosFollowUpLoop(channel, code_snippet, window, k, uid, acc) ==
    IF k > Len(window) THEN Ok(acc)
    ELSE IF ~Has(window[k], "user") THEN KeyError
    ELSE IF window[k]["user"] # uid
         THEN IF Has(channel, "channel_id") /\ Has(window[k], "text")
              THEN KudosFollowUpLoop(channel, code_snippet, window, k + 1, uid,
                       Append(acc, [from_user |-> uid,
                                    to_user |-> window[k]["user"],
                                    channel |-> channel["channel_id"],
                                    code_snippet |-> code_snippet,
                                    ack_text |-> window[k]["text"],
                                    type |-> "slack_ack"]))
              ELSE KeyError
         ELSE KudosFollowUpLoop(channel, code_snippet, window, k + 1, uid, acc)

\* the author test left out
IsByAnyone(commit, uid) == TRUE

\* if commit.get("author") != user_id
IsByOther(commit, uid) == Get(commit, "author") # uid

\* for commit in github_data.get("commits", []), from position k on
RECURSIVE KudosCommitLoop(_, _, _, _, _)
KudosCommitLoop(commits, k, code_snippet, uid, acc) ==
    IF k > Len(commits) THEN Ok(acc)
    ELSE IF IsByOther(commits[k], uid)
            /\ Contains(Slice(code_snippet, 0, PrefixLen), CommitText(commits[k]))
         THEN IF Has(commits[k], "author") /\ Has(commits[k], "sha")
              THEN KudosCommitLoop(commits, k + 1, code_snippet, uid,
                       Append(acc, [from_user |-> uid,
                                    to_user |-> commits[k]["author"],
                                    channel |-> Github,
                                    code_snippet |-> code_snippet,
                                    commit_sha |-> commits[k]["sha"],
                                    type |-> "github_usage"]))
              ELSE KeyError
         ELSE KudosCommitLoop(commits, k + 1, code_snippet, uid, acc)

\* for idx, msg in enumerate(messages), from 0-based index idx on
RECURSIVE KudosMessageLoop(_, _, _, _, _, _, _)
KudosMessageLoop(channel, messages, idx, commits, uid, cw, acc) ==
    IF idx >= Len(messages) THEN Ok(acc)
    ELSE LET msg == messages[idx + 1]
         IN  IF Get(msg, "user") = uid /\ GetOr(msg, "contains_code", FALSE)
             THEN IF ~Has(msg, "text") THEN KeyError
                  ELSE LET acks == KudosFollowUpLoop(channel, msg["text"],
                                       Slice(messages, idx + 1, idx + 1 + cw), 1, uid, acc)
                           uses == KudosCommitLoop(commits, 1, msg["text"], uid, acks.value)
                       IN  IF acks.status = "KeyError" \/ uses.status = "KeyError"
                           THEN KeyError
                           ELSE KudosMessageLoop(channel, messages, idx + 1, commits, uid,
                                                 cw, uses.value)
             ELSE KudosMessageLoop(channel, messages, idx + 1, commits, uid, cw, acc)

\* for channel in slack_data.get("channels", []), from position c on
RECURSIVE KudosChannelLoop(_, _, _, _, _, _)
KudosChannelLoop(channels, c, commits, uid, cw, acc) ==
    IF c > Len(channels) THEN Ok(acc)
    ELSE LET r == KudosMessageLoop(channels[c], GetOr(channels[c], "messages", <<>>), 0,
                                   commits, uid, cw, acc)
         IN  IF r.status = "KeyError" THEN KeyError
             ELSE KudosChannelLoop(channels, c + 1, commits, uid, cw, r.value)

extract_peer_kudos(slack, github, uid, cw) ==
    KudosChannelLoop(GetOr(slack, "channels", <<>>), 1,
                     GetOr(github, "commits", <<>>), uid, cw, <<>>)

(***************************************************************************)
(* Calls                                                                   *)
(***************************************************************************)
InitReceived ==
    /\ (LongWorkspace \/ MultiWorkspace \/ MalformedWorkspace)
    /\ github_data = NoCommits
    /\ transcripts_data = <<>>
    /\ user_id \in Users
    /\ context_window = 0
    /\ pc = "start"
    /\ result = NotCalled

GetUserReceivedCode ==
    /\ pc = "start"
    /\ pc' = "received_code"
    /\ result' = get_user_received_code(slack_data, user_id)
    /\ UNCHANGED <<slack_data, github_data, transcripts_data, user_id, context_window>>

SpecReceived == InitReceived /\ [][GetUserReceivedCode]_vars

InitTranscripts ==
    /\ slack_data = Workspace(<<>>)
    /\ github_data = NoCommits
    /\ \/ \E n \in 0..MaxMeetings : \E len \in 0..MaxLines :
             \E flat \in [1..len -> SpokenShapes] : \E cuts \in Cuts(n, len) :
                 transcripts_data = Meetings(CutInto(flat, n, cuts))
       \/ \E len \in 0..MaxMalformed : \E s \in [1..len -> AnyLineShapes] :
             transcripts_data = Meetings(<<s>>)
    /\ user_id \in Users
    /\ context_window \in 0..MaxRadius
    /\ pc = "start"
    /\ result = NotCalled

GetUserMeetingTranscriptsWithContext ==
    /\ pc = "start"
    /\ pc' = "transcripts"
    /\ result' = get_user_meeting_transcripts_with_context(
                     transcripts_data, user_id, context_window)
    /\ UNCHANGED <<slack_data, github_data, transcripts_data, user_id, context_window>>

SpecTranscripts == InitTranscripts /\ [][GetUserMeetingTranscriptsWithContext]_vars

InitCommits ==
    /\ slack_data = Workspace(<<>>)
    /\ \E n \in 0..MaxCommits : \E s \in [1..n -> CommitShapes] :
          github_data = CommitLog(s)
    /\ transcripts_data = <<>>
    /\ user_id \in Users
    /\ context_window = 0
    /\ pc = "start"
    /\ result = NotCalled

GetUserGithubCommits ==
    /\ pc = "start"
    /\ pc' = "commits"
    /\ result' = get_user_github_commits(github_data, user_id)
    /\ UNCHANGED <<slack_data, github_data, transcripts_data, user_id, context_window>>

SpecCommits == InitCommits /\ [][GetUserGithubCommits]_vars


\* the snippets matched against the commit log: the empty text, two short
\* texts, and a text of 31 characters
SnippetTexts == <<<<>>, <<"a", "b">>, <<"a", " ", "b">>, AB15 \o <<"y">>>>

\* a commit by "B" whose diff is the text of the first message of the first
\* channel
EchoCommit ==
    [commits |-> <<[author |-> "B", sha |-> <<"s", "0">>, codediff |-> TextAt(0, 0),
                    commit_message |-> <<"e">>]>>]

InitKudos ==
    /\ user_id \in Users
    /\ \/ /\ \/ slack_data = Workspace(<<>>)
             \/ \E n \in 0..MaxKudosMsgs : \E s \in [1..n -> WellFormedShapes] :
                   slack_data = Workspace(<<s>>)
          /\ github_data = EchoCommit
          /\ context_window \in 0..MaxWindow
       \/ /\ (MultiWorkspace \/ MalformedWorkspace)
          /\ github_data = EchoCommit
          /\ context_window = DefaultWindow
       \/ /\ \E n \in 0..MaxSnippets : \E t \in [1..n -> DOMAIN SnippetTexts] :
                slack_data =
                    [channels |-> <<[channel_id |-> ChannelId(0),
                                     messages |-> [i \in 1..n |->
                                         Message(user_id, SnippetTexts[t[i]], "true")]]>>]
          /\ \E n \in 0..MaxCommits : \E s \in [1..n -> CompleteCommitShapes] :
                github_data = CommitLog(s)
          /\ context_window = DefaultWindow
    /\ transcripts_data = <<>>
    /\ pc = "start"
    /\ result = NotCalled

ExtractPeerKudos ==
    /\ pc = "start"
    /\ pc' = "kudos"
    /\ result' = extract_peer_kudos(slack_data, github_data, user_id, context_window)
    /\ UNCHANGED <<slack_data, github_data, transcripts_data, user_id, context_window>>

SpecKudos == InitKudos /\ [][ExtractPeerKudos]_vars

(***************************************************************************)
(* Properties of get_user_received_code                                    *)
(***************************************************************************)
Channels == slack_data["channels"]
Msgs(c) == Channels[c]["messages"]

WellFormed(m) == Has(m, "user") /\ Has(m, "text")

ReturnedReceived == pc = "received_code" /\ result.status = "ok"

\* message i of channel c is code shared by someone other than the target
IsTrigger(c, i) ==
    GetOr(Msgs(c)[i], "contains_code", FALSE) /\ Get(Msgs(c)[i], "user") # user_id

ByTarget(c, j) == Get(Msgs(c)[j], "user") = user_id

\* the positions of the up-to-3 messages that follow message i
After3(c, i) == {j \in 1..Len(Msgs(c)) : i + 1 <= j /\ j <= i + 3}

\* C1: every fact returned by received-code extraction has a trigger at some
\* index i (author other than the target, contains-code true) and an
\* acknowledging message by the target at an index j, i+1 <= j <= i+3, inside
\* the channel, with no message by the target strictly between i and j; the
\* fact carries the channel's id, the trigger's author and text, and the
\* text of message j.
C1_ReceivedFactHasTriggerAndFirstAck ==
    ReturnedReceived =>
        \A k \in 1..Len(result.value) :
            \E c \in 1..Len(Channels) :
                \E i \in 1..Len(Msgs(c)) :
                    \E j \in After3(c, i) :
                        /\ IsTrigger(c, i)
                        /\ ByTarget(c, j)
                        /\ \A m \in (i + 1)..(j - 1) : ~ByTarget(c, m)
                        /\ WellFormed(Msgs(c)[i]) /\ WellFormed(Msgs(c)[j])
                        /\ result.value[k] =
                             [channel |-> Channels[c]["channel_id"],
                              from_user |-> Msgs(c)[i]["user"],
                              code_snippet |-> Msgs(c)[i]["text"],
                              acknowledged_by_user |-> Msgs(c)[j]["text"]]

\* a returned fact whose acknowledgment sits at the far end of the window,
\* in a channel that goes on past it
C1_Witness ==
    /\ ReturnedReceived
    /\ Len(result.value) >= 1
    /\ \E c \in 1..Len(Channels) :
          \E i \in 1..Len(Msgs(c)) :
              /\ IsTrigger(c, i)
              /\ i + 4 <= Len(Msgs(c))
              /\ ~ByTarget(c, i + 1) /\ ~ByTarget(c, i + 2) /\ ByTarget(c, i + 3)
              /\ \E k \in 1..Len(result.value) :
                    /\ result.value[k].code_snippet = Msgs(c)[i]["text"]
                    /\ result.value[k].acknowledged_by_user = Msgs(c)[i + 3]["text"]

\* the triggers that have a message by the target among the up-to-3 next ones
AckedTriggers ==
    {t \in UNION {{<<c, i>> : i \in 1..Len(Msgs(c))} : c \in 1..Len(Channels)} :
        IsTrigger(t[1], t[2]) /\ \E j \in After3(t[1], t[2]) : ByTarget(t[1], j)}

\* channel order, then index order
Before(s, t) == s[1] < t[1] \/ (s[1] = t[1] /\ s[2] < t[2])

FirstAck(c, i) ==
    CHOOSE j \in After3(c, i) :
        ByTarget(c, j) /\ \A m \in After3(c, i) : ByTarget(c, m) => j <= m

\* C9: received-code extraction returns exactly one fact for each trigger
\* that has a message by the target among the up-to-3 messages after it and
\* none for a trigger without one; the facts are in channel order, then
\* trigger-index order.
C9_OneFactPerAckedTriggerInOrder ==
    ReturnedReceived =>
        /\ Len(result.value) = Cardinality(AckedTriggers)
        /\ \A t \in AckedTriggers :
              LET k == 1 + Cardinality({s \in AckedTriggers : Before(s, t)})
                  c == t[1]
                  i == t[2]
              IN  /\ result.value[k].channel = Channels[c]["channel_id"]
                  /\ result.value[k].from_user = Msgs(c)[i]["user"]
                  /\ result.value[k].code_snippet = Msgs(c)[i]["text"]
                  /\ result.value[k].acknowledged_by_user = Msgs(c)[FirstAck(c, i)]["text"]

\* two triggers acknowledged by the same message, next to a trigger that is
\* not acknowledged at all
C9_Witness ==
    /\ ReturnedReceived
    /\ \E k \in 1..Len(result.value) : \E l \in 1..Len(result.value) :
          /\ k < l
          /\ result.value[k].channel = result.value[l].channel
          /\ result.value[k].acknowledged_by_user = result.value[l].acknowledged_by_user
    /\ \E c \in 1..Len(Channels) : \E i \in 1..Len(Msgs(c)) :
          IsTrigger(c, i) /\ <<c, i>> \notin AckedTriggers

\* some message of some channel lacks its user id or its text
SomeMalformedMessage ==
    \E c \in 1..Len(Channels) : \E i \in 1..Len(Msgs(c)) : ~WellFormed(Msgs(c)[i])

\* C6: when a message met while scanning a channel lacks its user id or its
\* text, received-code extraction and kudos extraction fail with a fault and
\* return no result.
C6_MalformedMessageAlwaysFaults ==
    (pc \in {"received_code", "kudos"} /\ SomeMalformedMessage)
        => result.status = "KeyError"

(***************************************************************************)
(* Properties of get_user_meeting_transcripts_with_context                 *)
(***************************************************************************)
ReturnedTranscripts == pc = "transcripts" /\ result.status = "ok"

Transcript(m) == transcripts_data[m]["transcript"]

\* the 0-based indices of meeting m at which the target speaks
Speaks(m) ==
    {i \in 0..(Len(Transcript(m)) - 1) : Get(Transcript(m)[i + 1], "user") = user_id}

\* the union of the clamped windows {max(0, i-r) .. min(n-1, i+r)}
Covered(m) ==
    {j \in 0..(Len(Transcript(m)) - 1) :
        \E i \in Speaks(m) : i - context_window <= j /\ j <= i + context_window}

SpokenMeetings == {m \in 1..Len(transcripts_data) : Speaks(m) # {}}

\* the position in the result of the flow of meeting m
FlowPosition(m) == 1 + Cardinality({n \in SpokenMeetings : n < m})

\* C2: for every meeting in which the target speaks, the emitted flow's
\* entries are exactly the lines at the indices of the union of the clamped
\* windows around the target's turns, in strictly increasing index order,
\* each index once.
C2_FlowIsWindowUnionInOrder ==
    ReturnedTranscripts =>
        \A m \in SpokenMeetings :
            \E k \in 1..Len(result.value) :
                /\ result.value[k].meeting_id = transcripts_data[m]["meeting_id"]
                /\ Len(result.value[k].flow) = Cardinality(Covered(m))
                /\ \A j \in Covered(m) :
                      result.value[k].flow[1 + Cardinality({h \in Covered(m) : h < j})]
                          = [user |-> Transcript(m)[j + 1]["user"],
                             text |-> Transcript(m)[j + 1]["text"]]

\* a flow merged from two overlapping windows, the first clamped at the
\* start of the transcript, with the lines past the windows left out
C2_Witness ==
    /\ ReturnedTranscripts
    /\ context_window = 1
    /\ \E m \in SpokenMeetings :
          /\ Len(Transcript(m)) = 5
          /\ Speaks(m) = {0, 1}
          /\ Len(result.value[FlowPosition(m)].flow) = 3
          /\ result.value[FlowPosition(m)].flow[3].text = Transcript(m)[3]["text"]

\* C7: the result holds exactly one flow for each meeting in which the
\* target speaks, in input meeting order, no entry for a meeting in which
\* the target does not speak, and no empty flow.
C7_OneFlowPerSpokenMeeting ==
    ReturnedTranscripts =>
        /\ Len(result.value) = Cardinality(SpokenMeetings)
        /\ \A m \in SpokenMeetings :
              result.value[FlowPosition(m)].meeting_id = transcripts_data[m]["meeting_id"]
        /\ \A k \in 1..Len(result.value) : result.value[k].flow # <<>>

\* a non-empty meeting without a turn of the target is skipped ahead of a
\* kept one
C7_Witness ==
    /\ ReturnedTranscripts
    /\ Len(transcripts_data) >= 2
    /\ Len(result.value) = 1
    /\ \E m \in 1..Len(transcripts_data) :
          m \notin SpokenMeetings /\ Len(Transcript(m)) >= 1 /\ (m + 1) \in SpokenMeetings

(***************************************************************************)
(* Properties of get_user_github_commits                                   *)
(***************************************************************************)
ReturnedCommits == pc = "commits" /\ result.status = "ok"

Commits == github_data["commits"]

OwnCommits == {k \in 1..Len(Commits) : Get(Commits[k], "author") = user_id}

OwnPosition(k) == 1 + Cardinality({n \in OwnCommits : n < k})

\* C5 as stated: personal-commit extraction returns, in source order, one
\* record for each commit authored by the user and none for any other, and
\* each record is the input commit with every field under its own name.
C5_RecordsAreTheInputCommits ==
    ReturnedCommits =>
        /\ Len(result.value) = Cardinality(OwnCommits)
        /\ \A k \in OwnCommits : result.value[OwnPosition(k)] = Commits[k]

\* C5 as the code has it: one record per commit authored by the user, in
\* source order; the record has no author field, carries the commit message
\* under the name "message", and carries sha, date, files_changed,
\* lines_added, lines_deleted, area and codediff unchanged.
C5_RecordsProjectTheInputCommits ==
    ReturnedCommits =>
        /\ Len(result.value) = Cardinality(OwnCommits)
        /\ \A k \in OwnCommits :
              LET r == result.value[OwnPosition(k)]
              IN  /\ DOMAIN r = {"sha", "date", "message", "files_changed", "lines_added",
                                 "lines_deleted", "area", "codediff"}
                  /\ r["message"] = Commits[k]["commit_message"]
                  /\ \A f \in DOMAIN r \ {"message"} : r[f] = Commits[k][f]

\* two commits of the user returned around a commit by someone else
C5_Witness ==
    /\ ReturnedCommits
    /\ Len(result.value) >= 1
    /\ \E k \in OwnCommits : \E n \in 1..Len(Commits) :
          n < k /\ n \notin OwnCommits /\ result.value[OwnPosition(k)].sha = Commits[k]["sha"]

(***************************************************************************)
(* Properties of extract_peer_kudos                                        *)
(***************************************************************************)
ReturnedKudos == pc = "kudos" /\ result.status = "ok"

SlackFacts == {k \in 1..Len(result.value) : result.value[k].type = "slack_ack"}
GithubFacts == {k \in 1..Len(result.value) : result.value[k].type = "github_usage"}

\* message i of channel c is code shared by the target
SharedByTarget(c, i) ==
    Get(Msgs(c)[i], "user") = user_id /\ GetOr(Msgs(c)[i], "contains_code", FALSE)

Shared ==
    UNION {{<<c, i>> : i \in {h \in 1..Len(Msgs(c)) : SharedByTarget(c, h)}} :
             c \in 1..Len(Channels)}

\* the follow-ups by others in the window of a shared message
AckPairs ==
    UNION {{<<p[1], p[2], j>> :
              j \in {h \in 1..Len(Msgs(p[1])) :
                       /\ p[2] + 1 <= h /\ h <= p[2] + context_window
                       /\ Get(Msgs(p[1])[h], "user") # user_id}} :
             p \in Shared}

AckFact(c, i, j) ==
    [from_user |-> user_id,
     to_user |-> Msgs(c)[j]["user"],
     channel |-> Channels[c]["channel_id"],
     code_snippet |-> Msgs(c)[i]["text"],
     ack_text |-> Msgs(c)[j]["text"],
     type |-> "slack_ack"]

\* C4: for every message M by the target with contains-code true, kudos
\* extraction emits exactly one slack_ack fact for each message among the
\* next w (up to the channel's end) whose author is not the target, and
\* none for any other message; the fact carries from_user = the target,
\* to_user = the follow-up's author, the channel's id, M's text and the
\* follow-up's text.
C4_OneAckFactPerFollowUpByOthers ==
    ReturnedKudos =>
        /\ \A p \in AckPairs :
              Cardinality({k \in SlackFacts : result.value[k] = AckFact(p[1], p[2], p[3])}) = 1
        /\ Cardinality(SlackFacts) = Cardinality(AckPairs)

\* a shared message followed by two messages of others inside a window of 2
\* and a third one just outside it
C4_Witness ==
    /\ ReturnedKudos
    /\ context_window = 2
    /\ \E p \in Shared :
          /\ Len(Msgs(p[1])) >= p[2] + 3
          /\ \A d \in 1..3 : Get(Msgs(p[1])[p[2] + d], "user") # user_id
          /\ Cardinality({k \in SlackFacts :
                            result.value[k].code_snippet = Msgs(p[1])[p[2]]["text"]}) = 2

First30(text) == SubSeq(text, 1, Min(30, Len(text)))

Spaced(commit) ==
    (IF Has(commit, "codediff") THEN commit["codediff"] ELSE <<>>)
    \o <<" ">>
    \o (IF Has(commit, "commit_message") THEN commit["commit_message"] ELSE <<>>)

Joined(commit) ==
    (IF Has(commit, "codediff") THEN commit["codediff"] ELSE <<>>)
    \o (IF Has(commit, "commit_message") THEN commit["commit_message"] ELSE <<>>)

OthersCommits ==
    {n \in 1..Len(Commits) : Has(Commits[n], "author") /\ Commits[n]["author"] # user_id}

\* C3 as stated: the first 30 characters of a github_usage fact's snippet are
\* a substring of the commit's diff body followed directly by its message
\* text, and the commit's author is not the target.
C3_UsagePrefixInDiffThenMessage ==
    ReturnedKudos =>
        \A k \in GithubFacts :
            \E n \in OthersCommits :
                /\ Get(Commits[n], "sha") = result.value[k].commit_sha
                /\ Contains(First30(result.value[k].code_snippet), Joined(Commits[n]))

\* C3 as the code has it: the first 30 characters of a github_usage fact's
\* snippet are a substring of the commit's diff body, one space, and its
\* message text, and the commit's author is not the target.
C3_UsagePrefixInDiffSpaceMessage ==
    ReturnedKudos =>
        \A k \in GithubFacts :
            \E n \in OthersCommits :
                /\ Get(Commits[n], "sha") = result.value[k].commit_sha
                /\ Contains(First30(result.value[k].code_snippet), Spaced(Commits[n]))

\* a fact for a snippet of 31 characters whose first 30 are in a commit of
\* someone else, next to a commit of the target with the same diff
C3_Witness ==
    /\ ReturnedKudos
    /\ \E k \in GithubFacts : Len(result.value[k].code_snippet) = 31
    /\ \E n \in 1..Len(Commits) :
          Get(Commits[n], "author") = user_id /\ Get(Commits[n], "codediff") = AB15

UsageFact(c, i, n) ==
    [from_user |-> user_id,
     to_user |-> Commits[n]["author"],
     channel |-> Github,
     code_snippet |-> Msgs(c)[i]["text"],
     commit_sha |-> Commits[n]["sha"],
     type |-> "github_usage"]

UsagePairsJoined ==
    {q \in Shared \X OthersCommits :
        Contains(First30(Msgs(q[1][1])[q[1][2]]["text"]), Joined(Commits[q[2]]))}

UsagePairsSpaced ==
    {q \in Shared \X OthersCommits :
        Contains(First30(Msgs(q[1][1])[q[1][2]]["text"]), Spaced(Commits[q[2]]))}

FactOfPair(q) == UsageFact(q[1][1], q[1][2], q[2])

C10_ShortSnippetIsItsOwnKey ==
    ReturnedKudos =>
        \A p \in Shared : \A n \in OthersCommits :
            LET text == Msgs(p[1])[p[2]]["text"]
                used == \E k \in GithubFacts :
                            /\ result.value[k].code_snippet = text
                            /\ result.value[k].commit_sha = Commits[n]["sha"]
                            /\ result.value[k].channel = Github
            IN  /\ Len(text) < 30 => (used <=> Contains(text, Spaced(Commits[n])))
                /\ text = <<>> => used

\* an empty snippet reported for two commits of others, one of them without
\* diff and message
C10_Witness ==
    /\ ReturnedKudos
    /\ \E p \in Shared : Msgs(p[1])[p[2]]["text"] = <<>>
    /\ Cardinality(OthersCommits) = 2
    /\ \E n \in OthersCommits : ~Has(Commits[n], "codediff") /\ ~Has(Commits[n], "commit_message")
    /\ \E n \in OthersCommits : Has(Commits[n], "codediff")
    /\ \A n \in OthersCommits :
          \E k \in GithubFacts :
              result.value[k].code_snippet = <<>> /\ result.value[k].commit_sha = Commits[n]["sha"]

====
